---------------------------- MODULE Spec2Model ----------------------------
(***************************************************************************)
(* A state-machine model of ModuleReloader (src/module_reloader.py) and of *)
(* the ThreadTemplate objects it drives (src/module_thread_template.py).   *)
(*                                                                         *)
(* Python dictionaries are functions whose DOMAIN is the set of keys.      *)
(* Module objects and ThreadTemplate objects live in two heaps (sequences; *)
(* an object's identity is its index).  Strings that the code inspects     *)
(* character by character (unit names, backup file names, paths) are       *)
(* sequences of one-character strings.                                     *)
(***************************************************************************)
EXTENDS Integers, Sequences, FiniteSets, TLC

VARIABLES
    sys_modules,          \* sys.modules restricted to the unit names: name -> module id
    sys_path,             \* the custom paths appended to sys.path
    loaded_modules,       \* self._loaded_modules: name -> module id
    loaded_order,         \* insertion order of the keys of self._loaded_modules
    module_dependencies,  \* self._module_dependencies: name -> list of names
    module_threads,       \* self._module_threads: name -> ThreadTemplate id
    thread_configs,       \* self._thread_configs: name -> config
    module_path,          \* self.module_path: name -> path
    backup_dir,           \* the files of module_backups/: file name -> content
    files,                \* the source files: path -> content
    modules,              \* heap of module objects
    workers,              \* heap of ThreadTemplate objects
    clock,                \* datetime.now(), in seconds
    calls,                \* number of public calls made so far
    edits,                \* number of edits of source files so far
    restarts,             \* number of process restarts so far
    last,                 \* the last public call: operation, name, exception raised
    pc,                   \* per ThreadTemplate followed line by line: where its thread is in _run
    begun                 \* per such ThreadTemplate: invocations begun with the stop event set

vars == <<sys_modules, sys_path, loaded_modules, loaded_order, module_dependencies,
          module_threads, thread_configs, module_path, backup_dir, files, modules,
          workers, clock, calls, edits, restarts, last, pc, begun>>

---------------------------------------------------------------------------
(* Bounds of the exploration. *)

MaxCalls == 4

MaxEdits == 1

MaxClock == 1

MaxRestarts == 1

RecursionLimit == 3

MaxWorkers == 2

MaxBegun == 2

MaxThreads == 3

---------------------------------------------------------------------------
(* The inputs. *)

NameA == <<"a">>

NameAB == <<"a", "_", "b">>

NameC == <<"c">>

\* The unit names the calls are made with; NameC is only ever the defining
\* module of a class.
Names == {NameA, NameAB}

NameOrder == <<NameA, NameAB, NameC>>

P1 == <<"p", "1", ".", "p", "y">>

P2 == <<"p", "2", ".", "p", "y">>

PyPaths == {P1, P2}

NoPath == <<>>

Paths == PyPaths

\* Source texts.  "none" stands for a file that does not exist.
Contents == {"v1", "v2", "v3", "bad"}

OpNames == {"tick", "val"}

NoArgs == <<>>

ArgsSet == {NoArgs, <<1>>}

EmptyDict == [x \in {} |-> 0]

KwargsSet == {[n |-> 1], [func_type |-> 0]}

\* Whether _create_cython_version is asked for and succeeds.
CythonOutcomes == {"off", "built"}

---------------------------------------------------------------------------
(* What executing a source text produces. *)

\* exec_module(foo) returns normally on this text.
Loadable(c) == c \in {"v1", "v2", "v3"}

\* attr.__module__ of every class found in the namespace of the text.
ClassOrigins(c) ==
    CASE c = "v2" -> {NameA}
      [] c = "v3" -> {NameA, NameAB, NameC}
      [] OTHER -> {}

\* The attributes of the namespace: "callable", "value" or "absent".
Attr(c, fn) ==
    CASE fn = "tick" /\ c \in {"v1", "v2"} -> "callable"
      [] fn = "val" /\ c \in {"v1", "v2", "v3"} -> "value"
      [] OTHER -> "absent"

\* Names the regular import system resolves without a custom path, and the
\* text it finds for them.
Installed == {NameAB}

InstalledContent(name) == "v1"

---------------------------------------------------------------------------
(* Dictionaries. *)

Put(d, k, v) == [x \in (DOMAIN d) \cup {k} |-> IF x = k THEN v ELSE d[x]]

Del(d, k) == [x \in (DOMAIN d) \ {k} |-> d[x]]

Has(d, k) == k \in DOMAIN d

---------------------------------------------------------------------------
(* Strings. *)

Ord(ch) ==
    CASE ch = "." -> 46
      [] ch = "0" -> 48 [] ch = "1" -> 49 [] ch = "2" -> 50 [] ch = "3" -> 51
      [] ch = "4" -> 52 [] ch = "5" -> 53 [] ch = "6" -> 54 [] ch = "7" -> 55
      [] ch = "8" -> 56 [] ch = "9" -> 57
      [] ch = "_" -> 95
      [] ch = "a" -> 97 [] ch = "b" -> 98 [] ch = "c" -> 99
      [] ch = "p" -> 112 [] ch = "q" -> 113 [] ch = "y" -> 121

Digit(d) == <<"0", "1", "2", "3", "4", "5", "6", "7", "8", "9">>[d + 1]

\* strftime: a date field and a time field, zero padded, joined by "_".
Strftime(t) == <<Digit((t \div 10) % 10), "_", Digit(t % 10)>>

StartsWith(s, prefix) ==
    /\ Len(prefix) <= Len(s)
    /\ \A i \in 1..Len(prefix) : s[i] = prefix[i]

EndsWith(s, suffix) ==
    /\ Len(suffix) <= Len(s)
    /\ \A i \in 1..Len(suffix) : s[Len(s) - Len(suffix) + i] = suffix[i]

DotPy == <<".", "p", "y">>

\* s < t as Python compares strings.
StrLess(s, t) ==
    \E i \in 1..(Len(t)) :
        /\ \A j \in 1..(i - 1) : j <= Len(s) /\ s[j] = t[j]
        /\ \/ i = Len(s) + 1
           \/ i <= Len(s) /\ Ord(s[i]) < Ord(t[i])

\* hashlib.sha256(...).hexdigest(): distinct texts have distinct digests; an
\* unreadable file gives "".
Sha256(c) ==
    CASE c = "v1" -> "h-1f" [] c = "v2" -> "h-2c" [] c = "v3" -> "h-3a"
      [] c = "bad" -> "h-4e" [] OTHER -> ""

---------------------------------------------------------------------------
(* The program state as one value, so that a handler that calls other      *)
(* handlers is a composition of operators.  exc is the exception in flight *)
(* ("none" when the call returns normally); events is what the call prints. *)

Cur ==
    [sys_modules |-> sys_modules, sys_path |-> sys_path,
     loaded_modules |-> loaded_modules, loaded_order |-> loaded_order,
     module_dependencies |-> module_dependencies,
     module_threads |-> module_threads, thread_configs |-> thread_configs,
     module_path |-> module_path, backup_dir |-> backup_dir, files |-> files,
     modules |-> modules, workers |-> workers, clock |-> clock,
     exc |-> "none", events |-> <<>>]

Ev(S, kind, name) == [S EXCEPT !.events = Append(@, <<kind, name>>)]

Raise(S, e) == [S EXCEPT !.exc = e]

FileContent(S, path) == IF path \in DOMAIN S.files THEN S.files[path] ELSE "none"

\* A new module object; its identity is Len(S.modules) + 1.
NewModule(S, m) == [S EXCEPT !.modules = Append(@, m)]

ModuleObject(name, content, origin, src) ==
    [name |-> name, content |-> content, executed |-> Loadable(content),
     origin |-> origin, src |-> src]

\* self._loaded_modules[name] = h
SetLoaded(S, name, h) ==
    [S EXCEPT !.loaded_modules = Put(@, name, h),
              !.loaded_order = IF Has(S.loaded_modules, name) THEN @ ELSE Append(@, name)]

---------------------------------------------------------------------------
(* The backup store. *)

\* _calculate_file_hash
CalculateFileHash(content) == Sha256(content)

\* The listing both _create_backup and _load_from_backup filter the directory with.
BackupFiles(S, name) ==
    {f \in DOMAIN S.backup_dir :
        StartsWith(f, name \o <<"_">>) /\ EndsWith(f, DotPy)}

BackupFileName(name, t) == name \o <<"_">> \o Strftime(t) \o DotPy

\* A hash check that never finds a match.
HasSameHashNever(S, name, source_hash) == FALSE

\* Whether _create_backup finds a backup of the unit with the hash of the source.
HasSameHash(S, name, source_hash) ==
    \E f \in BackupFiles(S, name) : CalculateFileHash(S.backup_dir[f]) = source_hash

\* _create_backup
CreateBackup(S, name, path) ==
    LET source_hash == CalculateFileHash(FileContent(S, path)) IN
    IF source_hash = ""
    THEN S
    ELSE IF HasSameHash(S, name, source_hash)
    THEN Ev(S, "backup_exists", name)
    ELSE Ev([S EXCEPT !.backup_dir =
                 Put(@, BackupFileName(name, S.clock), FileContent(S, path))],
            "backup_created", name)

\* backup_files.sort(reverse=True); backup_files[0]
LatestBackup(fs) == CHOOSE f \in fs : \A g \in fs : g = f \/ StrLess(g, f)

\* _load_from_backup: the state, and the module loaded (0 for None).
LoadFromBackup(S, name) ==
    LET fs == BackupFiles(S, name) IN
    IF fs = {}
    THEN [st |-> Ev(S, "no_backup", name), mod |-> 0]
    ELSE LET latest == LatestBackup(fs)
             text == S.backup_dir[latest]
         IN IF Loadable(text)
            THEN [st |-> NewModule(Ev(S, "load_backup", name),
                                   ModuleObject(name, text, "backup", latest)),
                  mod |-> Len(S.modules) + 1]
            ELSE [st |-> Ev(S, "backup_error", name), mod |-> 0]

---------------------------------------------------------------------------
(* The registry. *)

\* list(set(dependencies)).  The order of the list is the iteration order of a
\* set of strings; a list never holds two of the unit names of Names (a unit
\* is not its own dependency), so the order chosen here is not observable.
SetToList(set) ==
    LET Keep(n) == n \in set IN SelectSeq(NameOrder, Keep)

\* _get_module_dependencies
GetModuleDependencies(S, h) ==
    LET m == S.modules[h] IN
    SetToList({d \in ClassOrigins(m.content) : d # m.name})

\* get_module: the set is empty for None.
GetModule(S, name) ==
    IF Has(S.loaded_modules, name) THEN {S.loaded_modules[name]} ELSE {}

\* get_module_by_name
GetModuleByName(S, name) ==
    IF Has(S.sys_modules, name) THEN {S.sys_modules[name]} ELSE {}

\* importlib.import_module(name): the state, and the module (0: ImportError).
ImportModule(S, name) ==
    IF Has(S.sys_modules, name)
    THEN [st |-> S, mod |-> S.sys_modules[name]]
    ELSE IF name \in Installed
    THEN LET h == Len(S.modules) + 1
             S1 == NewModule(S, ModuleObject(name, InstalledContent(name), "import", NoPath))
         IN [st |-> [S1 EXCEPT !.sys_modules = Put(@, name, h)], mod |-> h]
    ELSE [st |-> S, mod |-> 0]

\* The cython branch of register_module (lines 216-228), after a successful
\* load from the custom path.
UseCython(S, name, path, cy) ==
    IF cy = "off"
    THEN S
    ELSE LET S1 == [S EXCEPT !.sys_modules = Del(@, name)]
             r == ImportModule(S1, name)
         IN IF r.mod # 0
            THEN Ev(r.st, "using_cython", name)
            ELSE Ev(S1, "cython_import_failed", name)

\* Whether importlib finds a loader for the path (a known suffix).
HasLoader(path) == EndsWith(path, DotPy)

\* sys.modules[name] = foo, in register_module's load from the custom path.
PublishFoo(S, name, h) == [S EXCEPT !.sys_modules = Put(@, name, h)]

\* register_module, lines 201-239: the state, and whether the call returns at 239.
LoadCustom(S, name, path, cy) ==
    LET S1 == [S EXCEPT !.module_path = Put(@, name, path),
                        !.sys_path = @ \cup {path}]
        text == FileContent(S, path)
        foo == Len(S1.modules) + 1
        S2 == IF HasLoader(path)
              THEN PublishFoo(NewModule(S1, ModuleObject(name, text, "source", path)),
                              name, foo)
              ELSE S1
    IN IF HasLoader(path) /\ Loadable(text)
       THEN [st |-> UseCython(CreateBackup(S2, name, path), name, path, cy),
             returned |-> FALSE]
       ELSE LET r == LoadFromBackup(Ev(S2, "load_error", name), name) IN
            IF r.mod # 0
            THEN [st |-> [r.st EXCEPT !.sys_modules = Put(@, name, r.mod)],
                  returned |-> FALSE]
            ELSE [st |-> Ev(r.st, "failed_source_and_backup", name), returned |-> TRUE]

\* register_module, lines 241-262.
ImportAndRecord(S, name) ==
    IF Has(S.loaded_modules, name)
    THEN S
    ELSE LET r == ImportModule(S, name) IN
         IF r.mod # 0
         THEN LET S1 == SetLoaded(r.st, name, r.mod) IN
              Ev([S1 EXCEPT !.module_dependencies =
                      Put(@, name, GetModuleDependencies(S1, r.mod))],
                 "registered", name)
         ELSE LET b == LoadFromBackup(Ev(S, "import_error", name), name) IN
              IF b.mod # 0
              THEN LET S1 == SetLoaded(b.st, name, b.mod)
                       S2 == [S1 EXCEPT !.module_dependencies =
                                 Put(@, name, GetModuleDependencies(S1, b.mod))]
                   IN Ev([S2 EXCEPT !.sys_modules =
                              IF Has(S2.sys_modules, name) THEN @ ELSE Put(@, name, b.mod)],
                         "registered_from_backup", name)
              ELSE Ev(b.st, "failed_source_and_backup", name)

\* register_module
RegisterModule(S, name, path, cy) ==
    IF Has(S.sys_modules, name)
    THEN Raise(Ev(S, "already_registered", name), "TypeError")
    ELSE IF path # NoPath /\ path \notin S.sys_path
    THEN LET r == LoadCustom(S, name, path, cy) IN
         IF r.returned THEN r.st ELSE ImportAndRecord(r.st, name)
    ELSE ImportAndRecord(S, name)

---------------------------------------------------------------------------
(* ThreadTemplate. *)

\* ThreadTemplate.__init__: func_type is taken out of the keyword arguments, the
\* rest is main_function_parameter.
ThreadTemplateInit(target, fn, kwargs) ==
    [target |-> target, fn |-> fn,
     func_type |-> IF "func_type" \in DOMAIN kwargs THEN kwargs["func_type"] ELSE 1,
     params |-> [k \in (DOMAIN kwargs) \ {"func_type"} |-> kwargs[k]],
     stop_event |-> FALSE, ready_event |-> FALSE, is_running |-> FALSE, alive |-> FALSE]

\* ThreadTemplate.start: the new thread sets the ready event first thing.
ThreadStart(w) ==
    IF ~w.is_running
    THEN [w EXCEPT !.stop_event = FALSE, !.ready_event = TRUE, !.alive = TRUE,
                   !.is_running = TRUE]
    ELSE w

\* A stop that sets the signal and leaves the running flag to the thread.
ThreadStopKeepsFlag(w) ==
    IF w.is_running THEN [w EXCEPT !.stop_event = TRUE] ELSE w

\* ThreadTemplate.stop: join(timeout=0.05) waits for the thread at most that
\* long; the thread ends on its own (WorkerExit).
ThreadStop(w) ==
    IF w.is_running
    THEN [w EXCEPT !.stop_event = TRUE, !.is_running = FALSE]
    ELSE w

\* ThreadTemplate.is_running
IsRunning(S, name) ==
    /\ Has(S.module_threads, name)
    /\ S.workers[S.module_threads[name]].is_running

---------------------------------------------------------------------------
(* The supervisor. *)

\* The entry of thread_configs start_module_thread stores.
ThreadConfig(fn, args, kwargs) ==
    [target_function |-> fn, args |-> args, kwargs |-> kwargs]

\* getattr(module, target_function) finds the attribute.
HasAttr(S, h, fn) == S.modules[h].executed /\ Attr(S.modules[h].content, fn) # "absent"

\* start_module_thread
StartModuleThread(S, name, fn, args, kwargs) ==
    IF ~Has(S.loaded_modules, name)
    THEN Ev(S, "not_registered", name)
    ELSE LET h == S.loaded_modules[name] IN
         IF ~HasAttr(S, h, fn)
         THEN Ev(S, "function_not_found", name)
         ELSE IF args # NoArgs
         THEN Ev(S, "error_starting_thread", name)
         ELSE LET w == Len(S.workers) + 1
                  t == ThreadStart(ThreadTemplateInit(h, fn, kwargs))
              IN Ev([S EXCEPT !.workers = Append(@, t),
                              !.module_threads = Put(@, name, w),
                              !.thread_configs = Put(@, name, ThreadConfig(fn, args, kwargs))],
                    "started", name)

\* kill_thread
KillThread(S, name) ==
    IF Has(S.module_threads, name)
    THEN LET w == S.module_threads[name] IN
         Ev([S EXCEPT !.workers[w] = ThreadStop(@),
                      !.module_threads = Del(@, name)],
            "killed", name)
    ELSE Ev(S, "no_thread", name)

---------------------------------------------------------------------------
(* Reload. *)

\* A registration check that looks the name up in sys.modules.
IsRegisteredInSysModules(S, name) == Has(S.sys_modules, name)

\* reload_module, line 271.
IsRegistered(S, name) == Has(S.loaded_modules, name)

\* reload_module, line 277: the config, or <<>> for None.
StoredConfig(S, name) ==
    IF Has(S.thread_configs, name) THEN <<S.thread_configs[name]>> ELSE <<>>

\* A fresh load that re-executes the source in the module object the unit
\* already has, as importlib.reload does.
FreshLoadInPlace(S, name) ==
    IF ~Has(S.module_path, name)
    THEN Raise(S, "KeyError")
    ELSE LET text == FileContent(S, S.module_path[name])
             old == S.loaded_modules[name]
         IN IF ~Loadable(text)
            THEN Raise(S, "LoadError")
            ELSE Ev([S EXCEPT !.modules[old].content = text], "loaded", name)

\* A fresh load that records the new module before it has executed.
FreshLoadRecordedFirst(S, name) ==
    IF ~Has(S.module_path, name)
    THEN Raise(S, "KeyError")
    ELSE LET path == S.module_path[name]
             text == FileContent(S, path)
             foo == Len(S.modules) + 1
             S1 == NewModule(S, ModuleObject(name, text, "source", path))
             S2 == SetLoaded([S1 EXCEPT !.sys_modules = Put(@, name, foo)], name, foo)
         IN IF ~Loadable(text) THEN Raise(S2, "LoadError") ELSE Ev(S2, "loaded", name)

\* reload_module, lines 286-291: the fresh load from the recorded path.
FreshLoad(S, name) ==
    IF ~Has(S.module_path, name)
    THEN Raise(S, "KeyError")
    ELSE LET path == S.module_path[name] IN
         IF ~HasLoader(path)
         THEN Raise(S, "AttributeError")
         ELSE LET text == FileContent(S, path)
                  foo == Len(S.modules) + 1
                  S1 == NewModule(S, ModuleObject(name, text, "source", path))
                  S2 == [S1 EXCEPT !.sys_modules = Put(@, name, foo)]
              IN IF ~Loadable(text)
                 THEN Raise(S2, "LoadError")
                 ELSE Ev(SetLoaded(S2, name, foo), "loaded", name)

\* A cascade that reloads nothing further.
CascadeTargetsNone(S, name) == <<>>

\* reload_module, line 297: the list the cascade iterates over.
CascadeTargets(S, name) == S.module_dependencies[name]

\* A restart that passes the operation and forgets the stored arguments.
RestartThreadWithoutArguments(S, name, config) ==
    StartModuleThread(Ev(S, "restarting", name), name,
                      config.target_function, NoArgs, EmptyDict)

\* reload_module, lines 304-311: module_name and target_function are passed by
\* keyword together with *args, so a positional argument collides with them.
RestartThread(S, name, config) ==
    IF config.args # NoArgs
    THEN Raise(Ev(S, "restarting", name), "TypeError")
    ELSE StartModuleThread(Ev(S, "restarting", name), name,
                           config.target_function, config.args, config.kwargs)

RECURSIVE ReloadModule(_, _, _)

RECURSIVE ReloadEach(_, _, _)

\* A reload that restarts the unit's worker before it cascades.
ReloadModuleRestartFirst(S, name, depth) ==
    IF ~IsRegistered(S, name)
    THEN Ev(S, "not_registered", name)
    ELSE IF depth > RecursionLimit
    THEN Raise(S, "RecursionError")
    ELSE LET config == StoredConfig(S, name)
             S1 == IF Has(S.module_threads, name) THEN KillThread(S, name) ELSE S
             S2 == FreshLoad(S1, name)
         IN IF S2.exc # "none"
            THEN S2
            ELSE LET S3 == [S2 EXCEPT !.module_dependencies =
                                Put(@, name, GetModuleDependencies(S2, S2.loaded_modules[name]))]
                     S4 == IF config # <<>> THEN RestartThread(S3, name, config[1]) ELSE S3
                     S5 == ReloadEach(S4, CascadeTargets(S4, name), depth + 1)
                 IN IF S5.exc # "none" THEN S5 ELSE Ev(S5, "reloaded", name)

\* reload_module, lines 297-299.
ReloadEach(S, list, depth) ==
    IF list = <<>> \/ S.exc # "none"
    THEN S
    ELSE LET dep == Head(list) IN
         ReloadEach(IF Has(S.loaded_modules, dep)
                    THEN ReloadModule(S, dep, depth)
                    ELSE S,
                    Tail(list), depth)

\* reload_module; depth is the depth of the recursion.
ReloadModule(S, name, depth) ==
    IF ~IsRegistered(S, name)
    THEN Ev(S, "not_registered", name)
    ELSE IF depth > RecursionLimit
    THEN Raise(S, "RecursionError")
    ELSE LET config == StoredConfig(S, name)
             S1 == IF Has(S.module_threads, name) THEN KillThread(S, name) ELSE S
             S2 == FreshLoad(S1, name)
         IN IF S2.exc # "none"
            THEN S2
            ELSE LET S3 == [S2 EXCEPT !.module_dependencies =
                                Put(@, name, GetModuleDependencies(S2, S2.loaded_modules[name]))]
                     S4 == ReloadEach(S3, CascadeTargets(S3, name), depth + 1)
                 IN IF S4.exc # "none"
                    THEN S4
                    ELSE LET S5 == Ev(S4, "reloaded", name) IN
                         IF config # <<>> THEN RestartThread(S5, name, config[1]) ELSE S5

RECURSIVE ReloadAllFrom(_, _)

\* reload_all: the loop over list(self._loaded_modules.keys()).
ReloadAllFrom(S, keys) ==
    IF keys = <<>> \/ S.exc # "none"
    THEN S
    ELSE ReloadAllFrom(ReloadModule(S, Head(keys), 1), Tail(keys))

\* reload_all
ReloadAll(S) == ReloadAllFrom(S, S.loaded_order)

---------------------------------------------------------------------------
(* Direct invocation. *)

\* load_module_function, lines 440-447: the state and the module (0: ImportError).
ResolveModule(S, name) ==
    IF Has(S.loaded_modules, name)
    THEN [st |-> S, mod |-> S.loaded_modules[name]]
    ELSE IF Has(S.sys_modules, name)
    THEN [st |-> S, mod |-> S.sys_modules[name]]
    ELSE LET r == ImportModule(S, name) IN
         IF r.mod # 0
         THEN [st |-> SetLoaded(r.st, name, r.mod), mod |-> r.mod]
         ELSE r

\* load_module_function: raised tells whether the operation raises when invoked.
LoadModuleFunction(S, name, fn, raised) ==
    LET r == ResolveModule(S, name) IN
    IF r.mod = 0
    THEN Ev(r.st, "import_error", name)
    ELSE IF ~HasAttr(r.st, r.mod, fn)
    THEN Ev(r.st, "attribute_error", name)
    ELSE IF Attr(r.st.modules[r.mod].content, fn) # "callable"
    THEN Ev(r.st, "not_callable", name)
    ELSE IF raised
    THEN Ev(r.st, "execution_error", name)
    ELSE Ev(r.st, "result", name)

---------------------------------------------------------------------------
(* The state machine. *)

NoCall == [op |-> "init", name |-> NoPath, exc |-> "none"]

\* ModuleReloader.__init__ in a fresh process.
Init ==
    /\ sys_modules = EmptyDict
    /\ sys_path = {}
    /\ loaded_modules = EmptyDict
    /\ loaded_order = <<>>
    /\ module_dependencies = EmptyDict
    /\ module_threads = EmptyDict
    /\ thread_configs = EmptyDict
    /\ module_path = EmptyDict
    /\ backup_dir = EmptyDict
    /\ files = [p \in PyPaths |-> IF p = P1 THEN "v1" ELSE "v2"]
    /\ modules = <<>>
    /\ workers = <<>>
    /\ clock = 0
    /\ calls = 0
    /\ edits = 0
    /\ restarts = 0
    /\ last = NoCall
    /\ pc = <<>>
    /\ begun = <<>>

\* A public call op(name, ...) that takes the program from Cur to S.
Call(op, name, S) ==
    /\ calls < MaxCalls
    /\ calls' = calls + 1
    /\ sys_modules' = S.sys_modules
    /\ sys_path' = S.sys_path
    /\ loaded_modules' = S.loaded_modules
    /\ loaded_order' = S.loaded_order
    /\ module_dependencies' = S.module_dependencies
    /\ module_threads' = S.module_threads
    /\ thread_configs' = S.thread_configs
    /\ module_path' = S.module_path
    /\ backup_dir' = S.backup_dir
    /\ modules' = S.modules
    /\ workers' = S.workers
    /\ last' = [op |-> op, name |-> name, exc |-> S.exc]
    /\ UNCHANGED <<files, clock, edits, restarts, pc, begun>>

DoRegister ==
    \E name \in Names, path \in Paths \cup {NoPath}, cy \in CythonOutcomes :
        Call("register_module", name, RegisterModule(Cur, name, path, cy))

DoReload ==
    \E name \in Names : Call("reload_module", name, ReloadModule(Cur, name, 1))

DoReloadAll == Call("reload_all", NoPath, ReloadAll(Cur))

DoStart ==
    \E name \in Names, fn \in OpNames, args \in ArgsSet, kwargs \in KwargsSet :
        Call("start_module_thread", name, StartModuleThread(Cur, name, fn, args, kwargs))

DoKill ==
    \E name \in Names : Call("kill_thread", name, KillThread(Cur, name))

DoInvoke ==
    \E name \in Names, fn \in OpNames, raised \in BOOLEAN :
        Call("load_module_function", name, LoadModuleFunction(Cur, name, fn, raised))

\* ThreadTemplate._run returns: the stop event was seen by the loop, the
\* operation was one-shot, or calling it raised.
WorkerExit ==
    \E w \in 1..Len(workers) :
        /\ workers[w].alive
        /\ \/ workers[w].stop_event
           \/ workers[w].func_type # 1
           \/ Attr(modules[workers[w].target].content, workers[w].fn) # "callable"
        /\ workers' = [workers EXCEPT ![w].alive = FALSE]
        /\ UNCHANGED <<sys_modules, sys_path, loaded_modules, loaded_order,
                       module_dependencies, module_threads, thread_configs,
                       module_path, backup_dir, files, modules, clock,
                       calls, edits, restarts, last, pc, begun>>

\* Somebody edits a source file: the new text drops an operation and imports
\* more classes ("v3"), or no longer executes ("bad").
EditTexts == {"v3", "bad"}

EditFile ==
    \E path \in PyPaths, text \in EditTexts :
        /\ edits < MaxEdits
        /\ text # files[path]
        /\ files' = [files EXCEPT ![path] = text]
        /\ edits' = edits + 1
        /\ UNCHANGED <<sys_modules, sys_path, loaded_modules, loaded_order,
                       module_dependencies, module_threads, thread_configs,
                       module_path, backup_dir, modules, workers, clock,
                       calls, restarts, last, pc, begun>>

\* The process ends and, now or a second later, a new one constructs a
\* ModuleReloader: only the file system survives.
Restart ==
    /\ restarts < MaxRestarts
    /\ restarts' = restarts + 1
    /\ sys_modules' = EmptyDict
    /\ sys_path' = {}
    /\ loaded_modules' = EmptyDict
    /\ loaded_order' = <<>>
    /\ module_dependencies' = EmptyDict
    /\ module_threads' = EmptyDict
    /\ thread_configs' = EmptyDict
    /\ module_path' = EmptyDict
    /\ modules' = <<>>
    /\ workers' = <<>>
    /\ last' = NoCall
    /\ clock' \in {t \in {clock, clock + 1} : t <= MaxClock}
    /\ UNCHANGED <<backup_dir, files, calls, edits, pc, begun>>

Next ==
    \/ DoRegister
    \/ DoReload
    \/ DoReloadAll
    \/ DoStart
    \/ DoKill
    \/ DoInvoke
    \/ WorkerExit
    \/ EditFile
    \/ Restart

\* The program under its public calls.  A worker's thread is followed only
\* as far as whether it has ended (WorkerExit); SpecRun follows it line by line.
Spec == Init /\ [][Next]_vars

---------------------------------------------------------------------------
(* The thread of a ThreadTemplate, line by line.                           *)
(*                                                                         *)
(* SpecRun starts after register_module("a", "p1.py") and lets the         *)
(* supervisor start and kill workers of the unit while each worker's thread *)
(* runs ThreadTemplate._run: pc is "ready" (line 76), "test" (the loop     *)
(* condition, line 80), "call" (about to invoke, lines 83 and 86),         *)
(* "in_call" (inside the operation), "sleep" (line 84), and, once _run has *)
(* returned, "stopped" (the loop saw the stop event), "finished" (the      *)
(* one-shot invocation returned) or "failed" (the invocation raised).      *)

\* The state of a fresh process, as a state record.
FreshState ==
    [sys_modules |-> EmptyDict, sys_path |-> {},
     loaded_modules |-> EmptyDict, loaded_order |-> <<>>,
     module_dependencies |-> EmptyDict,
     module_threads |-> EmptyDict, thread_configs |-> EmptyDict,
     module_path |-> EmptyDict, backup_dir |-> EmptyDict,
     files |-> [p \in PyPaths |-> IF p = P1 THEN "v1" ELSE "v2"],
     modules |-> <<>>, workers |-> <<>>, clock |-> 0,
     exc |-> "none", events |-> <<>>]

InitRun ==
    LET S == RegisterModule(FreshState, NameA, P1, "off") IN
    /\ sys_modules = S.sys_modules
    /\ sys_path = S.sys_path
    /\ loaded_modules = S.loaded_modules
    /\ loaded_order = S.loaded_order
    /\ module_dependencies = S.module_dependencies
    /\ module_threads = S.module_threads
    /\ thread_configs = S.thread_configs
    /\ module_path = S.module_path
    /\ backup_dir = S.backup_dir
    /\ files = S.files
    /\ modules = S.modules
    /\ workers = S.workers
    /\ clock = S.clock
    /\ calls = 0
    /\ edits = 0
    /\ restarts = 0
    /\ last = [op |-> "register_module", name |-> NameA, exc |-> S.exc]
    /\ pc = <<>>
    /\ begun = <<>>

\* What no step of SpecRun changes.
RunFrame ==
    UNCHANGED <<sys_modules, sys_path, loaded_modules, loaded_order,
                module_dependencies, module_path, backup_dir, files, modules,
                clock, calls, edits, restarts>>

\* start_module_thread("a", fn, **kwargs) starts a thread.
SupervisorStart ==
    \E fn \in OpNames, kwargs \in KwargsSet :
        LET S == StartModuleThread(Cur, NameA, fn, NoArgs, kwargs) IN
        /\ Len(workers) < MaxWorkers
        /\ Len(S.workers) = Len(workers) + 1
        /\ workers' = S.workers
        /\ module_threads' = S.module_threads
        /\ thread_configs' = S.thread_configs
        /\ last' = [op |-> "start_module_thread", name |-> NameA, exc |-> S.exc]
        /\ pc' = Append(pc, "ready")
        /\ begun' = Append(begun, 0)
        /\ RunFrame

\* kill_thread("a") for a recorded worker.
SupervisorKill ==
    LET S == KillThread(Cur, NameA) IN
    /\ Has(module_threads, NameA)
    /\ workers' = S.workers
    /\ module_threads' = S.module_threads
    /\ thread_configs' = S.thread_configs
    /\ last' = [op |-> "kill_thread", name |-> NameA, exc |-> S.exc]
    /\ UNCHANGED <<pc, begun>>
    /\ RunFrame

\* A step of the thread of worker w to position p.
Goto(w, p) ==
    /\ pc' = [pc EXCEPT ![w] = p]
    /\ workers' = [workers EXCEPT
                     ![w].alive = p \notin {"stopped", "finished", "failed"}]
    /\ UNCHANGED <<module_threads, thread_configs, last>>
    /\ RunFrame

\* A loop condition that never sees the stop event.
StopNeverObserved(t) == FALSE

\* _run, line 80: self._stop_event.is_set()
StopObserved(t) == t.stop_event

\* _run, line 76, and the tests of func_type at lines 79 and 85.
RunReady(w) ==
    /\ pc[w] = "ready"
    /\ Goto(w, IF workers[w].func_type = 1 THEN "test" ELSE "call")
    /\ UNCHANGED begun

\* _run, line 80: the loop condition.
RunLoopTest(w) ==
    /\ pc[w] = "test"
    /\ Goto(w, IF StopObserved(workers[w]) THEN "stopped" ELSE "call")
    /\ UNCHANGED begun

\* _run, lines 83 and 86: the invocation begins.
RunCall(w) ==
    /\ pc[w] = "call"
    /\ begun[w] < MaxBegun
    /\ begun' = [begun EXCEPT ![w] = IF workers[w].stop_event THEN @ + 1 ELSE @]
    /\ Goto(w, "in_call")

\* The invocation returns.
RunReturn(w) ==
    /\ pc[w] = "in_call"
    /\ Attr(modules[workers[w].target].content, workers[w].fn) = "callable"
    /\ Goto(w, IF workers[w].func_type = 1 THEN "sleep" ELSE "finished")
    /\ UNCHANGED begun

\* The invocation raises (always, when the attribute is not callable):
\* _run, lines 87-88.
RunRaise(w) ==
    /\ pc[w] = "in_call"
    /\ Goto(w, "failed")
    /\ UNCHANGED begun

\* _run, line 84: time.sleep(0.05) is over.
RunSleep(w) ==
    /\ pc[w] = "sleep"
    /\ Goto(w, "test")
    /\ UNCHANGED begun

\* One step of the thread of worker w.
ThreadStep(w) ==
    /\ w \in 1..Len(workers)
    /\ \/ RunReady(w)
       \/ RunLoopTest(w)
       \/ RunCall(w)
       \/ RunReturn(w)
       \/ RunRaise(w)
       \/ RunSleep(w)

RunThreads == \E w \in 1..MaxWorkers : ThreadStep(w)

NextRun ==
    \/ SupervisorStart
    \/ SupervisorKill
    \/ RunThreads

\* Every thread that can take a step eventually takes one: the scheduler is
\* fair and every invocation ends.
SpecRun ==
    /\ InitRun
    /\ [][NextRun]_vars
    /\ \A w \in 1..MaxWorkers : WF_vars(ThreadStep(w))

---------------------------------------------------------------------------
(* One ThreadTemplate under direct start() and stop() calls.               *)
(*                                                                         *)
(* SpecTemplate starts after register_module("a", "p1.py") with one        *)
(* ThreadTemplate constructed over an attribute of the module and not yet  *)
(* started (workers[1]).  Every start() that finds the running flag clear  *)
(* creates a thread; pc[t] is the position in _run of the t-th thread      *)
(* created, all of them running _run of the same object.  start and stop   *)
(* hold self._lock from their first line to their last, so each is one     *)
(* step whichever thread calls it.                                         *)

\* What no step of SpecTemplate changes.
TemplateFrame ==
    UNCHANGED <<sys_modules, sys_path, loaded_modules, loaded_order,
                module_dependencies, module_threads, thread_configs,
                module_path, backup_dir, files, modules, clock, calls, edits,
                restarts, last, begun>>

InitTemplate ==
    LET S == RegisterModule(FreshState, NameA, P1, "off") IN
    /\ sys_modules = S.sys_modules
    /\ sys_path = S.sys_path
    /\ loaded_modules = S.loaded_modules
    /\ loaded_order = S.loaded_order
    /\ module_dependencies = S.module_dependencies
    /\ module_threads = S.module_threads
    /\ thread_configs = S.thread_configs
    /\ module_path = S.module_path
    /\ backup_dir = S.backup_dir
    /\ files = S.files
    /\ modules = S.modules
    /\ clock = S.clock
    /\ calls = 0
    /\ edits = 0
    /\ restarts = 0
    /\ last = [op |-> "register_module", name |-> NameA, exc |-> S.exc]
    /\ \E fn \in OpNames, kwargs \in KwargsSet :
          workers = <<ThreadTemplateInit(S.loaded_modules[NameA], fn, kwargs)>>
    /\ pc = <<>>
    /\ begun = <<>>

\* The thread at position p has not returned from _run.
Executing(p) == p \notin {"stopped", "finished", "failed"}

\* ThreadTemplate.start, called by any thread.
TemplateStart ==
    /\ workers' = [workers EXCEPT ![1] = ThreadStart(@)]
    /\ IF workers[1].is_running
       THEN pc' = pc
       ELSE /\ Len(pc) < MaxThreads
            /\ pc' = Append(pc, "ready")
    /\ TemplateFrame

\* ThreadTemplate.stop, called by any thread: the join returns when the
\* thread has ended or after 0.05 s, whichever is first.
TemplateStop ==
    /\ workers' = [workers EXCEPT ![1] = ThreadStop(@)]
    /\ UNCHANGED pc
    /\ TemplateFrame

\* A step of the t-th thread to position p; self._thread is the thread
\* created last.
TemplateGoto(t, p) ==
    /\ pc' = [pc EXCEPT ![t] = p]
    /\ workers' = [workers EXCEPT
                     ![1].alive = IF t = Len(pc) THEN Executing(p) ELSE @]
    /\ TemplateFrame

\* _run in the t-th thread.
TemplateThreadStep(t) ==
    /\ t \in 1..Len(pc)
    /\ \/ /\ pc[t] = "ready"
          /\ TemplateGoto(t, IF workers[1].func_type = 1 THEN "test" ELSE "call")
       \/ /\ pc[t] = "test"
          /\ TemplateGoto(t, IF StopObserved(workers[1]) THEN "stopped" ELSE "call")
       \/ /\ pc[t] = "call"
          /\ TemplateGoto(t, "in_call")
       \/ /\ pc[t] = "in_call"
          /\ Attr(modules[workers[1].target].content, workers[1].fn) = "callable"
          /\ TemplateGoto(t, IF workers[1].func_type = 1 THEN "sleep" ELSE "finished")
       \/ /\ pc[t] = "in_call"
          /\ TemplateGoto(t, "failed")
       \/ /\ pc[t] = "sleep"
          /\ TemplateGoto(t, "test")

TemplateThreads == \E t \in 1..MaxThreads : TemplateThreadStep(t)

NextTemplate ==
    \/ TemplateStart
    \/ TemplateStop
    \/ TemplateThreads

SpecTemplate == InitTemplate /\ [][NextTemplate]_vars

---------------------------------------------------------------------------
(* Vocabulary of the properties. *)

\* The step is a public call op(name, ...).
CallStep(op, name) ==
    /\ calls' = calls + 1
    /\ last'.op = op
    /\ last'.name = name

\* The step takes the program to S.
StepIs(S) ==
    /\ sys_modules' = S.sys_modules
    /\ sys_path' = S.sys_path
    /\ loaded_modules' = S.loaded_modules
    /\ loaded_order' = S.loaded_order
    /\ module_dependencies' = S.module_dependencies
    /\ module_threads' = S.module_threads
    /\ thread_configs' = S.thread_configs
    /\ module_path' = S.module_path
    /\ backup_dir' = S.backup_dir
    /\ modules' = S.modules
    /\ workers' = S.workers
    /\ last'.exc = S.exc

\* The backup records saved for the unit: the files named <name>_<timestamp>.py.
RecordsOf(name) ==
    {f \in DOMAIN backup_dir : \E t \in 0..clock : f = BackupFileName(name, t)}

\* How often the call printing these events replaced the handle of the unit.
ReloadsOf(events, name) ==
    Cardinality({i \in 1..Len(events) : events[i] = <<"loaded", name>>})

\* A continuous worker is recorded for the unit and has not been stopped.
ActiveContinuousWorker(name) ==
    /\ Has(module_threads, name)
    /\ workers[module_threads[name]].is_running
    /\ workers[module_threads[name]].func_type = 1

\* The fresh load reload_module makes for the unit fails.
FreshLoadFails(name) ==
    \/ ~Has(module_path, name)
    \/ ~HasLoader(module_path[name])
    \/ ~Loadable(FileContent(Cur, module_path[name]))

---------------------------------------------------------------------------
(* C1 *)

\* C1, as claimed: whenever reload_module(U) returns and a continuous worker
\* was active for U with stored config C when it was called, a worker is
\* recorded and running for U afterwards and the stored config is still C.
C1_AlwaysRestarted ==
    [][\A U \in Names :
          (/\ CallStep("reload_module", U)
           /\ last'.exc = "none"
           /\ ActiveContinuousWorker(U))
          => (/\ Has(module_threads', U)
              /\ workers'[module_threads'[U]].is_running
              /\ Has(thread_configs', U)
              /\ thread_configs'[U] = thread_configs[U])]_vars

\* C1, amended: the same, provided the handle of U after the reload still has
\* the attribute the config names.  The restarted worker is a new object bound
\* to the new handle.
C1_RestartedWhenOperationRemains ==
    [][\A U \in Names :
          (/\ CallStep("reload_module", U)
           /\ last'.exc = "none"
           /\ ActiveContinuousWorker(U)
           /\ Attr(modules'[loaded_modules'[U]].content,
                   thread_configs[U].target_function) # "absent")
          => (/\ Has(module_threads', U)
              /\ module_threads'[U] # module_threads[U]
              /\ workers'[module_threads'[U]].is_running
              /\ workers'[module_threads'[U]].func_type = 1
              /\ workers'[module_threads'[U]].target = loaded_modules'[U]
              /\ ~workers'[module_threads[U]].is_running
              /\ Has(thread_configs', U)
              /\ thread_configs'[U] = thread_configs[U])]_vars

\* A reload has returned, and the unit's continuous worker is a later object
\* than the stopped worker it replaces, bound to the reloaded handle.
C1_Witness ==
    \E U \in Names :
        /\ last.op = "reload_module" /\ last.name = U /\ last.exc = "none"
        /\ ActiveContinuousWorker(U)
        /\ workers[module_threads[U]].target = loaded_modules[U]
        /\ \E w \in 1..(module_threads[U] - 1) :
              /\ workers[w].stop_event
              /\ workers[w].fn = workers[module_threads[U]].fn
              /\ workers[w].params = workers[module_threads[U]].params
              /\ modules[workers[w].target].name = U

---------------------------------------------------------------------------
(* C2 *)

\* C2: when A and B are registered, B's dependency list holds A, and the
\* dependencies form no cycle before and after the call, a call
\* reload_module(A) that returns replaces the handle of B exactly once.
C2_DependentReloadedOnce ==
    [][\A A \in Names, B \in Names :
          (/\ CallStep("reload_module", A)
           /\ last'.exc = "none"
           /\ A # B
           /\ Has(loaded_modules, A) /\ Has(loaded_modules, B)
           /\ \E i \in 1..Len(module_dependencies[B]) : module_dependencies[B][i] = A
           /\ \A i \in 1..Len(module_dependencies[A]) : module_dependencies[A][i] # B
           /\ \A i \in 1..Len(module_dependencies'[A]) : module_dependencies'[A][i] # B)
          => (/\ ReloadsOf(ReloadModule(Cur, A, 1).events, B) = 1
              /\ loaded_modules'[B] # loaded_modules[B])]_vars

---------------------------------------------------------------------------
(* C3 *)

\* C3: when reload_module(U) is called for a registered U whose fresh load
\* fails, no handle and no dependency list of the registry changes and every
\* module object that existed before is unchanged, whether or not a backup of
\* U could be loaded (the code consults none).
C3_FailedReloadKeepsUnit ==
    [][\A U \in Names :
          (/\ CallStep("reload_module", U)
           /\ Has(loaded_modules, U)
           /\ FreshLoadFails(U))
          => (/\ last'.exc # "none"
              /\ loaded_modules' = loaded_modules
              /\ loaded_order' = loaded_order
              /\ module_dependencies' = module_dependencies
              /\ \A h \in 1..Len(modules) : modules'[h] = modules[h])]_vars

\* A reload of a registered unit has just failed on a source that does not
\* execute, no backup record of the unit exists, and the unit still has the
\* handle of an earlier, executed load.
C3_Witness ==
    \E U \in Names :
        /\ last.op = "reload_module" /\ last.name = U /\ last.exc = "LoadError"
        /\ Has(loaded_modules, U)
        /\ modules[loaded_modules[U]].executed
        /\ ~Loadable(files[module_path[U]])
        /\ RecordsOf(U) = {}
        /\ Has(module_dependencies, U)

---------------------------------------------------------------------------
(* C4 *)

\* C4: when reload_module(U) is called for a registered U whose fresh load
\* fails while a loadable backup record of U exists, the handle of U afterwards
\* is a module loaded from the most recent backup record of U.
C4_ReloadFallsBackToBackup ==
    [][\A U \in Names :
          (/\ CallStep("reload_module", U)
           /\ Has(loaded_modules, U)
           /\ FreshLoadFails(U)
           /\ RecordsOf(U) # {}
           /\ Loadable(backup_dir[LatestBackup(RecordsOf(U))]))
          => (/\ loaded_modules'[U] # loaded_modules[U]
              /\ modules'[loaded_modules'[U]].origin = "backup"
              /\ modules'[loaded_modules'[U]].src = LatestBackup(RecordsOf(U)))]_vars

---------------------------------------------------------------------------
(* C5 *)

\* C5: no public call ends by raising an exception to its caller.
C5_NoFailurePropagates == last.exc = "none"

---------------------------------------------------------------------------
(* C6 *)

\* No two backup records of one unit hold the same text.
OneRecordPerHash ==
    \A name \in Names :
        \A f \in RecordsOf(name), g \in RecordsOf(name) :
            CalculateFileHash(backup_dir[f]) = CalculateFileHash(backup_dir[g]) => f = g

---------------------------------------------------------------------------
(* C7 *)

\* The call register_module(name, path) loads the source at path.
SourceLoads(name, path) ==
    /\ path \notin sys_path
    /\ HasLoader(path)
    /\ Loadable(FileContent(Cur, path))

\* C7: when register_module(U, src) registers U, the handle get_module(U)
\* returns holds the text of src if src was loaded, and otherwise the text of
\* the most recent backup record of U.
C7_RegisterThenGet ==
    [][\A U \in Names, src \in Paths :
          (/\ CallStep("register_module", U)
           /\ StepIs(RegisterModule(Cur, U, src, "off"))
           /\ last'.exc = "none"
           /\ ~Has(loaded_modules, U)
           /\ Has(loaded_modules', U))
          => LET got == modules'[loaded_modules'[U]] IN
             IF SourceLoads(U, src)
             THEN got.executed /\ got.content = FileContent(Cur, src)
             ELSE /\ RecordsOf(U) # {}
                  /\ got.executed
                  /\ got.content = backup_dir[LatestBackup(RecordsOf(U))]]_vars

---------------------------------------------------------------------------
(* C8 *)

\* C8: when register_module(name, src) is called for a name that is neither
\* registered nor in sys.modules, and neither src nor a backup loads, then
\* afterwards get_module(name) is absent and sys.modules does not resolve name.
C8_FailedRegistrationLeavesNothing ==
    [][\A name \in Names, src \in Paths, cy \in CythonOutcomes :
          (/\ CallStep("register_module", name)
           /\ StepIs(RegisterModule(Cur, name, src, cy))
           /\ ~Has(loaded_modules, name)
           /\ ~Has(sys_modules, name)
           /\ src \notin sys_path
           /\ ~SourceLoads(name, src)
           /\ LoadFromBackup(Cur, name).mod = 0)
          => (/\ GetModule([loaded_modules |-> loaded_modules'], name) = {}
              /\ GetModuleByName([sys_modules |-> sys_modules'], name) = {})]_vars

---------------------------------------------------------------------------
(* C9 *)

\* C9: when reload_module(U) is called for a registered U whose fresh load
\* succeeds, the handle of U afterwards is a module object that did not exist
\* before the call, and every module object that existed before is unchanged
\* (also when the source text is the text of the old handle).
C9_ReloadReplacesNeverMutates ==
    [][\A U \in Names :
          (/\ CallStep("reload_module", U)
           /\ Has(loaded_modules, U)
           /\ ~FreshLoadFails(U))
          => (/\ loaded_modules'[U] # loaded_modules[U]
              /\ loaded_modules'[U] > Len(modules)
              /\ modules'[loaded_modules'[U]].executed
              /\ \A h \in 1..Len(modules) : modules'[h] = modules[h])]_vars

\* A reload has returned, and the unit's handle is a later module object than
\* another module object of the unit with the same text from the same source.
C9_Witness ==
    \E U \in Names :
        /\ last.op = "reload_module" /\ last.name = U /\ last.exc = "none"
        /\ Has(loaded_modules, U)
        /\ \E h \in 1..(loaded_modules[U] - 1) :
              /\ modules[h].name = U
              /\ modules[h].origin = "source"
              /\ modules[h].src = modules[loaded_modules[U]].src
              /\ modules[h].content = modules[loaded_modules[U]].content

---------------------------------------------------------------------------
(* C10 *)

\* C10: reload_module(name) for a name that is not registered returns, prints
\* that the module is not registered and nothing else, and changes neither the
\* registry, the workers, the thread configs nor the backup store.
C10_ReloadUnregisteredIsNoOp ==
    [][\A name \in Names :
          (/\ CallStep("reload_module", name)
           /\ ~Has(loaded_modules, name))
          => (/\ last'.exc = "none"
              /\ ReloadModule(Cur, name, 1).events = << <<"not_registered", name>> >>
              /\ UNCHANGED <<loaded_modules, loaded_order, module_dependencies,
                             module_threads, thread_configs, workers, backup_dir,
                             sys_modules, sys_path, module_path, modules>>)]_vars

\* A reload of a name that is not registered has returned, while another unit
\* is registered with a worker and a backup, and sys.modules still holds what
\* a failed registration of the name left there.
C10_Witness ==
    \E name \in Names :
        /\ last.op = "reload_module" /\ last.name = name /\ last.exc = "none"
        /\ ~Has(loaded_modules, name)
        /\ Has(sys_modules, name)
        /\ loaded_modules # EmptyDict
        /\ module_threads # EmptyDict
        /\ backup_dir # EmptyDict

---------------------------------------------------------------------------
(* C11 *)

\* The workers started for the unit whose stop signal is not set and whose
\* thread is in the loop of _run: it leaves the loop only once the signal is set.
ActiveWorkersOf(name) ==
    {w \in 1..Len(workers) :
        /\ modules[workers[w].target].name = name
        /\ workers[w].alive
        /\ workers[w].func_type = 1
        /\ Attr(modules[workers[w].target].content, workers[w].fn) = "callable"
        /\ ~workers[w].stop_event}

\* C11: for every unit name at most one worker started for the name is still
\* looping with its stop signal not set.
C11_AtMostOneActiveWorker ==
    \A name \in Names : Cardinality(ActiveWorkersOf(name)) <= 1

---------------------------------------------------------------------------
(* C12 *)

\* C12: kill_thread(U) returns without exception; when a worker is recorded
\* for U, afterwards its stop signal is set, its running flag is false, no
\* worker is recorded for U, and nothing else of the worker or of any other
\* worker changed (its thread may still be executing); when none is recorded,
\* the call prints that no thread was found and changes no state.
C12_StopClearsBookkeeping ==
    [][\A U \in Names :
          CallStep("kill_thread", U)
          => /\ last'.exc = "none"
             /\ UNCHANGED <<sys_modules, sys_path, loaded_modules, loaded_order,
                            module_dependencies, thread_configs, module_path,
                            backup_dir, modules>>
             /\ IF Has(module_threads, U)
                THEN LET w == module_threads[U] IN
                     /\ workers'[w].stop_event
                     /\ ~workers'[w].is_running
                     /\ workers'[w].alive = workers[w].alive
                     /\ module_threads' = Del(module_threads, U)
                     /\ Len(workers') = Len(workers)
                     /\ \A v \in 1..Len(workers) : v # w => workers'[v] = workers[v]
                ELSE /\ KillThread(Cur, U).events = << <<"no_thread", U>> >>
                     /\ UNCHANGED <<module_threads, workers>>]_vars

\* kill_thread has returned for a unit whose continuous worker is still
\* executing a callable operation: the signal is set, the flag is cleared and
\* the supervisor records no worker for the unit.
C12_Witness ==
    \E U \in Names, w \in 1..Len(workers) :
        /\ last.op = "kill_thread" /\ last.name = U /\ last.exc = "none"
        /\ ~Has(module_threads, U)
        /\ modules[workers[w].target].name = U
        /\ workers[w].func_type = 1
        /\ Attr(modules[workers[w].target].content, workers[w].fn) = "callable"
        /\ workers[w].alive
        /\ workers[w].stop_event
        /\ ~workers[w].is_running

---------------------------------------------------------------------------
(* C13 *)

\* C13: when start_module_thread(name, op, ...) is called for a registered
\* unit whose handle has no attribute op or an attribute op that is not
\* callable, afterwards no worker is recorded for name that was not recorded
\* before, no thread was started and the thread config of name is unchanged.
C13_StartRejectsUnusableOperation ==
    [][\A name \in Names, op \in OpNames, args \in ArgsSet, kwargs \in KwargsSet :
          (/\ CallStep("start_module_thread", name)
           /\ StepIs(StartModuleThread(Cur, name, op, args, kwargs))
           /\ Has(loaded_modules, name)
           /\ Attr(modules[loaded_modules[name]].content, op) # "callable")
          => (/\ module_threads' = module_threads
              /\ workers' = workers
              /\ thread_configs' = thread_configs)]_vars

---------------------------------------------------------------------------
(* C14 *)

\* C14: when register_module(name, src) is called for a registered name with a
\* source src that loads, the call returns, name is still registered and its
\* handle holds the text of src, which a following load_module_function runs.
C14_ReRegistrationReloads ==
    [][\A name \in Names, src \in Paths :
          (/\ CallStep("register_module", name)
           /\ StepIs(RegisterModule(Cur, name, src, "off"))
           /\ Has(loaded_modules, name)
           /\ HasLoader(src)
           /\ Loadable(FileContent(Cur, src)))
          => (/\ last'.exc = "none"
              /\ Has(loaded_modules', name)
              /\ modules'[loaded_modules'[name]].executed
              /\ modules'[loaded_modules'[name]].content = FileContent(Cur, src)
              /\ ResolveModule([Cur EXCEPT !.loaded_modules = loaded_modules',
                                           !.sys_modules = sys_modules',
                                           !.modules = modules'], name).mod
                   = loaded_modules'[name])]_vars

---------------------------------------------------------------------------
(* C15 *)

\* C15: every backup record that exists before a step exists after it with
\* the same content.
C15_BackupStoreAppendOnly ==
    [][\A f \in DOMAIN backup_dir :
          /\ f \in DOMAIN backup_dir'
          /\ backup_dir'[f] = backup_dir[f]]_vars

---------------------------------------------------------------------------
(* C16 *)

\* C16: when reload_module(U) is called while no worker is recorded and
\* running for U, no worker is recorded for U when it returns and the call
\* starts no thread for U.
C16_RestartOnlyIfActive ==
    [][\A U \in Names :
          (/\ CallStep("reload_module", U)
           /\ ~IsRunning(Cur, U))
          => (/\ ~Has(module_threads', U)
              /\ \A w \in (Len(workers) + 1)..Len(workers') :
                    modules'[workers'[w].target].name # U)]_vars

---------------------------------------------------------------------------
(* C17 *)

\* The units the cascade of reload_module(n) goes on to: the registered
\* dependencies found in the source of n as the reload loads it (none when
\* the load fails, which ends the call).
CascadeEdges(n) ==
    IF ~Has(loaded_modules, n) \/ FreshLoadFails(n)
    THEN {}
    ELSE {d \in ClassOrigins(FileContent(Cur, module_path[n])) \ {n} :
             Has(loaded_modules, d)}

\* The units reached from n along at least one and at most k cascade edges.
RECURSIVE CascadeReach(_, _)

CascadeReach(n, k) ==
    IF k = 0
    THEN {}
    ELSE LET near == CascadeReach(n, k - 1) IN
         CascadeEdges(n) \cup near \cup UNION {CascadeEdges(m) : m \in near}

\* A dependency cycle is reachable from n along the cascade's edges.
CycleReachable(n) ==
    LET k == Cardinality(Names)
    IN \E m \in CascadeReach(n, k) \cup {n} : m \in CascadeReach(m, k)

\* C17: reload_module(name) on a registered unit ends in unbounded recursion
\* (RecursionError) exactly when a dependency cycle is reachable from name
\* along the edges its cascade follows.
C17_ReloadTerminatesIffAcyclic ==
    [][\A name \in Names :
          (/\ CallStep("reload_module", name)
           /\ Has(loaded_modules, name))
          => (last'.exc = "RecursionError" <=> CycleReachable(name))]_vars

\* A reload has ended in unbounded recursion: both units are registered and
\* each one's source names the other.
C17_Witness ==
    \E name \in Names :
        /\ last.op = "reload_module" /\ last.name = name
        /\ last.exc = "RecursionError"
        /\ \A n \in Names : Has(loaded_modules, n) /\ CascadeEdges(n) = Names \ {n}

\* A reload with a cascade has returned: the unit's source names the other
\* registered unit, whose source names no registered unit.
C17_WitnessTerminates ==
    \E name \in Names, dep \in Names :
        /\ last.op = "reload_module" /\ last.name = name /\ last.exc = "none"
        /\ CascadeEdges(name) = {dep}
        /\ CascadeEdges(dep) = {}
        /\ ~FreshLoadFails(dep)

---------------------------------------------------------------------------
(* C18 *)

\* The places in the printed events of the events <<kind, name>> with kind in kinds.
Places(events, kinds, name) ==
    {i \in 1..Len(events) : events[i][1] \in kinds /\ events[i][2] = name}

\* Every event of the first set is printed before every event of the second.
Before(first, second) == \A i \in first, j \in second : i < j

\* Everything a reload prints about one unit.
ReloadKinds ==
    {"killed", "loaded", "reloaded", "restarting", "started",
     "function_not_found", "error_starting_thread"}

\* C18: in a reload_module(U) that returns, each unit's worker is stopped
\* before its handle is replaced, its handle is replaced before its reload
\* completes and its worker is restarted after that; everything about a
\* cascaded unit V happens after U's handle is replaced and before U's reload
\* completes and U's worker is restarted; and a worker started by the call
\* runs the operation of the unit's handle as the call leaves it.
C18_CascadeOrdering ==
    [][\A U \in Names :
          (/\ CallStep("reload_module", U)
           /\ Has(loaded_modules, U)
           /\ last'.exc = "none")
          => LET e == ReloadModule(Cur, U, 1).events IN
             /\ \A V \in Names :
                   /\ Before(Places(e, {"killed"}, V), Places(e, {"loaded"}, V))
                   /\ Before(Places(e, {"loaded"}, V), Places(e, {"reloaded"}, V))
                   /\ Before(Places(e, {"reloaded"}, V), Places(e, {"restarting"}, V))
                   /\ Before(Places(e, {"restarting"}, V), Places(e, {"started"}, V))
                   /\ V # U =>
                        /\ Before(Places(e, {"loaded"}, U), Places(e, ReloadKinds, V))
                        /\ Before(Places(e, ReloadKinds, V),
                                  Places(e, {"reloaded", "restarting", "started"}, U))
                   /\ Places(e, {"started"}, V) # {} =>
                        /\ Has(module_threads', V)
                        /\ module_threads'[V] > Len(workers)
                        /\ workers'[module_threads'[V]].target = loaded_modules'[V]
                        /\ loaded_modules'[V] > Len(modules)
             /\ Cardinality(Places(e, {"loaded"}, U)) = 1
             /\ Cardinality(Places(e, {"reloaded"}, U)) = 1]_vars

\* A reload of a unit with a worker has returned after cascading to the other
\* unit: the other unit's new handle was made after the unit's own, and the
\* unit's new worker runs the operation of the unit's new handle.
C18_Witness ==
    \E U \in Names, V \in Names :
        /\ U # V
        /\ last.op = "reload_module" /\ last.name = U /\ last.exc = "none"
        /\ Has(loaded_modules, U) /\ Has(loaded_modules, V)
        /\ V \in CascadeEdges(U)
        /\ loaded_modules[V] > loaded_modules[U]
        /\ \E h \in 1..(loaded_modules[U] - 1) : modules[h].name = V
        /\ Has(module_threads, U)
        /\ workers[module_threads[U]].target = loaded_modules[U]
        /\ \E w \in 1..(module_threads[U] - 1) :
              workers[w].stop_event /\ modules[workers[w].target].name = U

---------------------------------------------------------------------------
(* C19 *)

\* C19: a continuous worker begins at most one invocation of its operation
\* with its stop event set; its thread leaves the loop for the stop event only
\* at the loop condition, never out of an invocation, and kill_thread moves no
\* thread; and once the stop event of a continuous worker is set, its thread
\* eventually ends (every invocation ending, under a fair scheduler).
C19_CooperativeStop ==
    /\ [](\A w \in 1..Len(workers) : workers[w].func_type = 1 => begun[w] <= 1)
    /\ [][\A w \in 1..Len(workers) :
             /\ (pc'[w] = "stopped" /\ pc[w] # "stopped")
                  => (pc[w] = "test" /\ workers[w].stop_event)
             /\ pc[w] = "in_call" => pc'[w] \in {"in_call", "sleep", "failed"}
                                     \/ workers[w].func_type # 1
             /\ (workers'[w].stop_event /\ ~workers[w].stop_event) => pc'[w] = pc[w]]_vars
    /\ \A w \in 1..MaxWorkers :
          (w <= Len(workers) /\ workers[w].func_type = 1 /\ workers[w].stop_event)
             ~> (w <= Len(workers) /\ ~workers[w].alive)

\* The thread of a continuous worker has left its loop after the one
\* invocation it began once its stop event was set.
C19_Witness ==
    \E w \in 1..Len(workers) :
        /\ workers[w].func_type = 1
        /\ Attr(modules[workers[w].target].content, workers[w].fn) = "callable"
        /\ workers[w].stop_event
        /\ begun[w] = 1
        /\ pc[w] = "stopped"
        /\ ~workers[w].alive

---------------------------------------------------------------------------
(* C20 *)

\* C20: in every store the program reaches, _load_from_backup(name) returns
\* None when no record was saved for name, and a module it loads is loaded
\* from the record of name with the greatest timestamp.
C20_LoadLatestOfThatUnit ==
    \A name \in Names :
        LET r == LoadFromBackup(Cur, name) IN
        /\ RecordsOf(name) = {} => r.mod = 0
        /\ r.mod # 0 =>
             /\ r.st.modules[r.mod].src \in RecordsOf(name)
             /\ \A g \in RecordsOf(name) :
                   g = r.st.modules[r.mod].src \/ StrLess(g, r.st.modules[r.mod].src)

---------------------------------------------------------------------------
(* C22 *)

\* C22: every registered name has a recorded source location and a recorded
\* dependency list.
C22_RegisteredUnitsReloadable ==
    \A name \in DOMAIN loaded_modules :
        /\ Has(module_path, name)
        /\ Has(module_dependencies, name)

---------------------------------------------------------------------------
(* C21 *)

\* The threads of the ThreadTemplate that are inside the loop of _run.
ThreadsInLoop ==
    {t \in 1..Len(pc) : pc[t] \in {"test", "call", "in_call", "sleep"}}

\* C21: whenever the stop signal of a continuous ThreadTemplate over a
\* callable operation is unset, at most one thread is executing the loop of
\* its _run.
C21_SingleRunLoop ==
    (/\ workers[1].func_type = 1
     /\ Attr(modules[workers[1].target].content, workers[1].fn) = "callable"
     /\ ~workers[1].stop_event)
        => Cardinality(ThreadsInLoop) <= 1

=============================================================================
